---------------------------- MODULE Spec2Model ----------------------------
(***************************************************************************)
(* Model of the animation orchestration of src/app/page.tsx (Portfolio):   *)
(* the useEffect that builds every rule inside one gsap.context, the DOM   *)
(* listeners it attaches, the ScrollTriggers it registers and the cleanup  *)
(* that calls ctx.revert().                                                *)
(*                                                                         *)
(* Units: time in ticks of 100 ms (duration 0.3 -> 3), visual values in    *)
(* hundredths (scale 1.2 -> 120, y -8 -> -800, rotation 180 -> 18000,      *)
(* opacity 1 -> 100).  An ease maps progress 0 to 0 and 1 to 1; the model  *)
(* interpolates linearly in between, which is all the properties checked   *)
(* here depend on.                                                         *)
(*                                                                         *)
(* The engine is GSAP 3 as the source uses it: tweens are created with the *)
(* default overwrite:false, a "to" tween reads its start values from the   *)
(* element on its first render, a fromTo renders its from-state at once,   *)
(* the root timeline renders its children in creation order, and a         *)
(* gsap.context records what is created while its function runs.          *)
(***************************************************************************)
EXTENDS Integers, Sequences, FiniteSets, TLC

(* ------------------------------ bounds -------------------------------- *)
\* Initialize runs at most this often (mount, unmount, mount, ...).
MaxMounts == 2
\* Tweens created by event handlers / callbacks that may be in flight on one
\* element at once.
MaxLive == 2
\* Largest staggered set examined by the stagger specification.
MaxN == 6

(* ----------------------------- elements ------------------------------- *)
\* Section refs (servicesRef, projectsRef, techRef, aboutRef, contactRef).
Sections == {"services", "projects", "tech", "about", "contact"}

\* Page fragments the orchestrator is run on.  No rule of the source reads
\* or writes an element outside its own fragment, so the fragments are
\* explored one at a time.
Pages ==
  { {"contact", "social0"},
    {"tech", "badge0"},
    {"services", "card0", "icon0"},
    {"projects", "pcard0", "pcard1"},
    {"about", "aicon0"},
    {"contact", "cform", "input0"},
    {"contact", "input0"},
    {"contact", "cform", "send0"},
    {"tech", "tstat0", "tnum0"},
    {"tech", "tstat2", "tnum2"},
    {"about", "astat0", "anum0"} }

AllEls == UNION Pages

\* index of an element in its querySelectorAll list
Idx(e) ==
  CASE e \in {"tstat2", "tnum2"} -> 2
    [] e = "pcard1" -> 1
    [] OTHER -> 0

techBadges(d)    == d \cap {"badge0"}
socialButtons(d) == d \cap {"social0"}
serviceCards(d)  == d \cap {"card0"}
projectCards(d)  == d \cap {"pcard0", "pcard1"}
icons(d)         == d \cap {"aicon0"}
formInputs(d)    == d \cap {"input0"}
formButtons(d)   == d \cap {"send0"}
techStats(d)     == d \cap {"tstat0", "tstat2"}
stats(d)         == d \cap {"astat0"}

\* card.querySelector(".service-icon"), stat.querySelector("div:first-child")
ChildOf(e) ==
  CASE e = "card0"  -> "icon0"
    [] e = "tstat0" -> "tnum0"
    [] e = "tstat2" -> "tnum2"
    [] e = "astat0" -> "anum0"
    [] OTHER -> "none"

\* The text rendered in the markup for a counter.
Markup(e) ==
  CASE e = "tnum0" -> <<"1", "2", "+">>
    [] e = "tnum2" -> <<"1", "0", "0", "%">>
    [] e = "anum0" -> <<"5", "0", "+">>
    [] OTHER -> <<>>

(* ------------------------- visual properties -------------------------- *)
TransformProps ==
  {"x", "y", "z", "scale", "rotation", "rotationX", "rotationY", "transformPerspective"}
NumProps == TransformProps \cup {"opacity", "boxShadow"}

Base(e, p) ==
  CASE p = "scale" -> 100
    [] p = "opacity" -> 100
    [] p = "textContent" -> Markup(e)
    [] OTHER -> 0

PropsOf(e) == IF Markup(e) # <<>> THEN {"textContent"} ELSE NumProps


(* ------------------ text of a numeric counter (strings) --------------- *)
\* A text is a sequence of one-character strings.
DigitChars == <<"0", "1", "2", "3", "4", "5", "6", "7", "8", "9">>
Digits == {DigitChars[i] : i \in 1..10}
DigitVal(c) == (CHOOSE i \in 1..10 : DigitChars[i] = c) - 1

\* length of the longest prefix of s made of characters of C
PrefixLen(s, C) ==
  CHOOSE n \in 0..Len(s) :
    /\ \A i \in 1..n : s[i] \in C
    /\ (n = Len(s) \/ s[n + 1] \notin C)

Drop(s, n) == SubSeq(s, n + 1, Len(s))

RECURSIVE NatToStr(_)
NatToStr(n) ==
  IF n < 10 THEN <<DigitChars[n + 1]>>
  ELSE Append(NatToStr(n \div 10), DigitChars[(n % 10) + 1])

RECURSIVE StrToNat(_)
StrToNat(s) ==
  IF s = <<>> THEN 0
  ELSE 10 * StrToNat(SubSeq(s, 1, Len(s) - 1)) + DigitVal(s[Len(s)])

RECURSIVE StripZeros(_)
StripZeros(s) ==
  IF s # <<>> /\ s[Len(s)] = "0" THEN StripZeros(SubSeq(s, 1, Len(s) - 1)) ELSE s

\* JavaScript parseFloat on a text that starts with digits, in units of
\* 1/10000: the digits, then an optional fraction; what follows is ignored.
parseFloat(s) ==
  LET n1 == PrefixLen(s, Digits)
      r  == Drop(s, n1)
      fr == IF r # <<>> /\ r[1] = "."
            THEN SubSeq(Drop(r, 1), 1, PrefixLen(Drop(r, 1), Digits))
            ELSE <<>>
      f4 == SubSeq(fr \o <<"0", "0", "0", "0">>, 1, 4)
  IN StrToNat(SubSeq(s, 1, n1)) * 10000 + StrToNat(f4)

\* JavaScript number -> string for a value with at most 4 decimals (v in 1/10000).
NumToStr(v) ==
  LET ip == v \div 10000
      fr == v % 10000
      f4 == <<DigitChars[(fr \div 1000) + 1], DigitChars[((fr \div 100) % 10) + 1],
              DigitChars[((fr \div 10) % 10) + 1], DigitChars[(fr % 10) + 1]>>
  IN IF fr = 0 THEN NatToStr(ip) ELSE NatToStr(ip) \o <<".">> \o StripZeros(f4)

\* Math.round of a value given in 1/10000
MathRound(v) == (v + 5000) \div 10000

\* gsap getUnit: the unit of a value is what _unitExp
\* /^[+\-=e\s\d]*\d+[.\d]*([a-z]*|%)\s*$/i captures; "" when it does not match.
\* (Over the alphabet of the counters: digits, ".", "+", "%".)
getUnit(raw) ==
  LET pct  == raw # <<>> /\ raw[Len(raw)] = "%"
      body == IF pct THEN SubSeq(raw, 1, Len(raw) - 1) ELSE raw
      ok   == \E i \in 0..Len(body) : \E j \in (i + 1)..Len(body) :
                /\ \A k \in 1..i : body[k] \in Digits \cup {"+"}
                /\ \A k \in (i + 1)..j : body[k] \in Digits
                /\ \A k \in (j + 1)..Len(body) : body[k] \in Digits \cup {"."}
  IN IF ok /\ pct THEN <<"%">> ELSE <<>>

\* snap: { textContent: 1 } -> gsap _roundModifier(1), applied by the
\* property setter to every text the tween writes:
\* Math.round(parseFloat(raw)) + getUnit(raw)
snap(raw) == NatToStr(MathRound(parseFloat(raw))) \o getUnit(raw)

\* length of the first match of gsap's _complexStringNumExp
\* /[-+=.]*\d+[.e\-+]*\d*[e\-+]*\d*/ in a text
NumMatchLen(s) ==
  LET p0 == PrefixLen(s, {"+", "."})
      d1 == PrefixLen(Drop(s, p0), Digits)
      m1 == PrefixLen(Drop(s, p0 + d1), {".", "+"})
      d2 == PrefixLen(Drop(s, p0 + d1 + m1), Digits)
      m2 == PrefixLen(Drop(s, p0 + d1 + m1 + d2), {"+"})
      d3 == PrefixLen(Drop(s, p0 + d1 + m1 + d2 + m2), Digits)
  IN IF d1 = 0 THEN 0 ELSE p0 + d1 + m1 + d2 + m2 + d3

\* x * p / dur rounded to the nearest integer (x, p, dur >= 0)
RoundDiv(x, dur) == (2 * x + dur) \div (2 * dur)

\* The text a counter tween from text b to text e shows at progress p of dur
\* (gsap _renderPlain for two plain numbers, _renderComplexString otherwise),
\* as written through the snap modifier.
RenderText(b, e, p, dur) ==
  LET n == NumMatchLen(e)
      c == parseFloat(e) - parseFloat(b)
      v == parseFloat(b) + RoundDiv(c * p, dur)
      s == IF n = Len(e) /\ PrefixLen(e, Digits) = n THEN NumToStr(v)
           ELSE IF p = 0 THEN b
           ELSE IF p = dur THEN e
           ELSE NumToStr(v) \o Drop(e, n)
  IN snap(s)

(* ------------------------------ stagger ------------------------------- *)
\* The stagger configurations of the source, times in milliseconds.
\* "each": stagger: <number>;  "amount": stagger: { amount, from, grid }.
StaggerRules ==
  { [rule |-> "heroButtons",  mode |-> "each",   ms |-> 200,  from |-> "start",  cols |-> 0],
    [rule |-> "serviceCards", mode |-> "each",   ms |-> 200,  from |-> "start",  cols |-> 0],
    [rule |-> "techBadges",   mode |-> "amount", ms |-> 1200, from |-> "random", cols |-> 0],
    [rule |-> "wave",         mode |-> "amount", ms |-> 800,  from |-> "start",  cols |-> 0],
    [rule |-> "icons",        mode |-> "amount", ms |-> 1000, from |-> "center", cols |-> 2],
    [rule |-> "contactItems", mode |-> "each",   ms |-> 200,  from |-> "start",  cols |-> 0],
    [rule |-> "formInputs",   mode |-> "each",   ms |-> 100,  from |-> "start",  cols |-> 0] }

StaggerOf(name) == CHOOSE c \in StaggerRules : c.rule = name

Abs(x) == IF x < 0 THEN -x ELSE x
Max(S) == CHOOSE x \in S : \A y \in S : y <= x
Min(S) == CHOOSE x \in S : \A y \in S : x <= y

ISqrt(n) == CHOOSE r \in 0..(n + 1) : r * r <= n /\ n < (r + 1) * (r + 1)

\* The orders a shuffle of n distances is drawn from: every rotation of the
\* list and the reversed list (perm[i] is the place item i takes).
Shuffles(n) ==
  { [i \in 1..n |-> ((i - 1 + k) % n) + 1] : k \in 0..(n - 1) }
    \cup { [i \in 1..n |-> n + 1 - i] }

\* gsap distribute(): the distance of item j (0-based) of n from the origin,
\* in units of 1/40 of a cell.  from:"start" and from:"random" measure along
\* the list; from:"center" with grid [rows, cols] measures from the centre of
\* the grid wrapped at cols.
Distance(c, j, n, perm) ==
  CASE c.from = "start"  -> 40 * j
    [] c.from = "random" -> 40 * (perm[j + 1] - 1) + 20
    [] c.from = "center" ->
         LET wrap == c.cols
             x4 == 4 * (j % wrap) - (2 * (IF wrap < n THEN wrap ELSE n) - 2)
             y4 == (n - 2) - 4 * (j \div wrap)
         IN ISqrt(100 * (x4 * x4 + y4 * y4))

\* gsap distribute(): the total the distances are scaled to.  A number
\* (each) is multiplied by the length of the list; an amount is taken as is.
StaggerTotal(c, n) ==
  IF c.mode = "amount" THEN c.ms ELSE c.ms * (n - 1)

\* gsap distribute(): the start offset of item j (0-based) of n, in ms.
Distribute(c, j, n, perm) ==
  LET D   == [k \in 0..(n - 1) |-> Distance(c, k, n, perm)]
      mn  == Min({D[k] : k \in 0..(n - 1)})
      mx  == Max({D[k] : k \in 0..(n - 1)})
  IN IF mx = mn THEN 0 ELSE ((D[j] - mn) * StaggerTotal(c, n)) \div (mx - mn)

(* ------------------------------- rules -------------------------------- *)
\* Elements in document order (the order querySelectorAll returns them).
DocOrder ==
  <<"card0", "icon0", "pcard0", "pcard1", "badge0", "tstat0", "tnum0", "tstat2", "tnum2",
    "aicon0", "astat0", "anum0", "cform", "input0", "send0", "social0">>

InDoc(S) == SelectSeq(DocOrder, LAMBDA e : e \in S)
PlaceIn(S, e) == CHOOSE i \in 1..Len(InDoc(S)) : InDoc(S)[i] = e

\* Math.random() * 1 s in a tween duration, in ticks.
RandomTicks == {0, 4}

\* Math.sin(index) * 5 and Math.cos(index) * 3 in hundredths of a degree.
SinTimes5(i) == CASE i = 0 -> 0 [] i = 1 -> 421 [] OTHER -> 455
CosTimes3(i) == CASE i = 0 -> 300 [] i = 1 -> 162 [] OTHER -> -125

\* A tween of the root timeline.  st: start values (read from the element on
\* the first render of a "to" tween: initted), to: end values, t: playhead
\* (negative while in its delay), off: stagger offset inside its animation,
\* total: length of the animation it belongs to, rep = -1: repeats for ever,
\* trig: the ScrollTrigger that drives it, owned: recorded by the context.
FromTo(rule, el, from, to, dur, delay, off, total, trig, tel) ==
  [rule |-> rule, el |-> el, st |-> from, to |-> to, dur |-> dur, off |-> off,
   total |-> total, rep |-> 0, yoyo |-> FALSE, trig |-> trig, tel |-> tel,
   owned |-> TRUE, initted |-> TRUE, t |-> -delay, run |-> "paused"]

To(rule, el, to, dur, delay, off, rep, yoyo, owned) ==
  [rule |-> rule, el |-> el, st |-> to, to |-> to, dur |-> dur, off |-> off,
   total |-> IF rep = -1 THEN 2 * dur ELSE off + dur * (rep + 1),
   rep |-> rep, yoyo |-> yoyo, trig |-> "none", tel |-> "none", owned |-> owned,
   initted |-> FALSE, t |-> -delay, run |-> "play"]

\* gsap.set: a zero-duration tween, rendered at once.
Set(rule, el, to) ==
  [rule |-> rule, el |-> el, st |-> to, to |-> to, dur |-> 0, off |-> 0,
   total |-> 0, rep |-> 0, yoyo |-> FALSE, trig |-> "none", tel |-> "none",
   owned |-> TRUE, initted |-> TRUE, t |-> 0, run |-> "done"]

\* stagger offset of element e among the targets S of a rule, in ticks
OffTicks(name, S, e, perm) ==
  Distribute(StaggerOf(name), PlaceIn(S, e) - 1, Cardinality(S), perm) \div 100
SpreadTicks(name, S) ==
  IF Cardinality(S) < 2 THEN 0
  ELSE StaggerTotal(StaggerOf(name), Cardinality(S)) \div 100

Map(sq, F(_)) == [i \in 1..Len(sq) |-> F(sq[i])]
RECURSIVE Flatten(_)
Flatten(ss) == IF ss = <<>> THEN <<>> ELSE Head(ss) \o Flatten(Tail(ss))

\* lines 203-230: service cards entrance
ServiceTweensDim(d) ==
  IF "services" \notin d THEN <<>>
  ELSE Map(InDoc(serviceCards(d)), LAMBDA e :
         FromTo("serviceCards", e,
                [opacity |-> 0, y |-> 8000, rotationX |-> 4500, transformPerspective |-> 1000],
                [opacity |-> 50, y |-> 0, rotationX |-> 0],
                10, 0, OffTicks("serviceCards", serviceCards(d), e, <<>>),
                SpreadTicks("serviceCards", serviceCards(d)) + 10, "servicesST", "services"))

ServiceTweens(d) ==
  IF "services" \notin d THEN <<>>
  ELSE Map(InDoc(serviceCards(d)), LAMBDA e :
         FromTo("serviceCards", e,
                [opacity |-> 0, y |-> 8000, rotationX |-> 4500, transformPerspective |-> 1000],
                [opacity |-> 100, y |-> 0, rotationX |-> 0],
                10, 0, OffTicks("serviceCards", serviceCards(d), e, <<>>),
                SpreadTicks("serviceCards", serviceCards(d)) + 10, "servicesST", "services"))

\* lines 232-258: projectCards.forEach: one fromTo per card, from the left for
\* an even index and from the right for an odd one, triggered by the card
ProjectTweensSameSide(d) ==
  IF "projects" \notin d THEN <<>>
  ELSE Map(InDoc(projectCards(d)), LAMBDA e :
         FromTo("projectCard", e,
                [opacity |-> 0, x |-> -10000, rotation |-> -500],
                [opacity |-> 100, x |-> 0, rotation |-> 0],
                10, 0, 0, 10, "projectST", e))

ProjectTweens(d) ==
  IF "projects" \notin d THEN <<>>
  ELSE Map(InDoc(projectCards(d)), LAMBDA e :
         FromTo("projectCard", e,
                [opacity |-> 0,
                 x |-> IF Idx(e) % 2 = 0 THEN -10000 ELSE 10000,
                 rotation |-> IF Idx(e) % 2 = 0 THEN -500 ELSE 500],
                [opacity |-> 100, x |-> 0, rotation |-> 0],
                10, 0, 0, 10, "projectST", e))

\* lines 292-301: the breathing tween of one badge
BreathingOnce(e, rnd) ==
  To("breathing", e, [scale |-> 102], 20 + rnd, Idx(e) * 1, 0, 0, TRUE, TRUE)

Breathing(e, rnd) ==
  To("breathing", e, [scale |-> 102], 20 + rnd, Idx(e) * 1, 0, -1, TRUE, TRUE)

\* lines 345-388: one tech stat and its number
TechStat(e, v) ==
  <<FromTo("techStat", e, [opacity |-> 0, y |-> 2000], [opacity |-> 100, y |-> 0],
           6, Idx(e) * 2 + 5, 0, 6, "techStatST", e)>>
  \o (IF ChildOf(e) \in DOMAIN v
      THEN <<FromTo("techNumber", ChildOf(e), [textContent |-> <<"0">>],
                    [textContent |-> v[ChildOf(e)].textContent],
                    15, Idx(e) * 2 + 8, 0, 15, "techNumberST", e)>>
      ELSE <<>>)

\* lines 260-389: technologies section
TechTweens(d, v, rnd, perm) ==
  IF "tech" \notin d THEN <<>>
  ELSE Map(InDoc(techBadges(d)), LAMBDA e :
         FromTo("techBadges", e, [opacity |-> 0, y |-> 3000, scale |-> 80],
                [opacity |-> 100, y |-> 0, scale |-> 100],
                6, 0, OffTicks("techBadges", techBadges(d), e, perm),
                SpreadTicks("techBadges", techBadges(d)) + 6, "techBadgesST", "tech"))
       \o Map(InDoc(techBadges(d)), LAMBDA e : Breathing(e, rnd))
       \o Flatten(Map(InDoc(techStats(d)), LAMBDA e : TechStat(e, v)))

\* lines 447-491: one about stat and its .stat-number
AboutStat(e, v) ==
  <<FromTo("aboutStat", e, [opacity |-> 0, y |-> 3000], [opacity |-> 100, y |-> 0],
           8, Idx(e) * 2, 0, 8, "aboutStatST", e)>>
  \o (IF ChildOf(e) \in DOMAIN v
      THEN <<FromTo("aboutNumber", ChildOf(e), [textContent |-> <<"0">>],
                    [textContent |-> v[ChildOf(e)].textContent],
                    20, Idx(e) * 2 + 5, 0, 20, "aboutNumberST", e)>>
      ELSE <<>>)

\* lines 391-492: about section
AboutTweens(d, v) ==
  IF "about" \notin d THEN <<>>
  ELSE Map(InDoc(icons(d)), LAMBDA e :
         FromTo("icons", e, [opacity |-> 0, scale |-> 50, y |-> 3000],
                [opacity |-> 100, scale |-> 100, y |-> 0],
                8, 0, OffTicks("icons", icons(d), e, <<>>),
                SpreadTicks("icons", icons(d)) + 8, "iconsST", "about"))
       \o Flatten(Map(InDoc(stats(d)), LAMBDA e : AboutStat(e, v)))

\* lines 603-612: the continuous rotation of one social button
Rotation(e, rnd) ==
  To("rotation", e, [rotationY |-> SinTimes5(Idx(e)), rotationX |-> CosTimes3(Idx(e))],
     30 + rnd, Idx(e) * 2, 0, -1, TRUE, TRUE)

\* lines 494-659: contact section
\* The element a scrollTrigger measures: its trigger, and when the trigger
\* is null (querySelector found nothing) the document body.
TriggerEl(d, e) == IF e \in d THEN e ELSE "body"

ContactTweens(d, rnd) ==
  IF "contact" \notin d THEN <<>>
  ELSE (IF "cform" \in d
        THEN <<FromTo("contactForm", "cform",
                      [opacity |-> 0, rotationY |-> 9000, x |-> 10000, transformPerspective |-> 1000],
                      [opacity |-> 100, rotationY |-> 0, x |-> 0], 12, 0, 0, 12, "contactFormST", "contact")>>
        ELSE <<>>)
       \o Map(InDoc(formInputs(d)), LAMBDA e :
            FromTo("formInputs", e,
                   [opacity |-> 0, rotationX |-> 9000, y |-> 2000, transformPerspective |-> 1000],
                   [opacity |-> 100, rotationX |-> 0, y |-> 0],
                   6, 0, OffTicks("formInputs", formInputs(d), e, <<>>),
                   SpreadTicks("formInputs", formInputs(d)) + 6, "formInputsST",
                   TriggerEl(d, "cform")))
       \o Flatten(Map(InDoc(socialButtons(d)), LAMBDA e :
            <<Set("socialSet", e, [transformPerspective |-> 1000]), Rotation(e, rnd)>>))

\* Every tween the context function creates, in the order it creates them.
InitTweens(d, v, rnd, perm) ==
  ServiceTweens(d) \o ProjectTweens(d) \o TechTweens(d, v, rnd, perm) \o AboutTweens(d, v) \o ContactTweens(d, rnd)

(* --------------------------- ScrollTriggers --------------------------- *)
\* A trigger element's scroll position is the number of thresholds of its
\* triggers the page has been scrolled past: for techRef 1 = "top 75%",
\* 2 = "top 60%", 3 = the end of the range; for every other element
\* 1 = the start, 2 = the end of the range.
MaxPos(e) == IF e = "tech" THEN 3 ELSE 2

\* toggleActions: what the rule's animation does on onEnter, onLeave,
\* onEnterBack, onLeaveBack.
ToggleActionsBothWays == <<"play", "reverse", "play", "reverse">>

ToggleActions == <<"play", "none", "none", "reverse">>

Toggle(rule, el) ==
  [rule |-> rule, el |-> el, start |-> 1, end |-> MaxPos(el), kind |-> "toggle"]

\* The ScrollTriggers the context function creates (scrollTrigger: {...} of a
\* fromTo with toggleActions "play none none reverse", and the
\* ScrollTrigger.create of lines 325-341 with only an onEnter callback).
InitTriggers(d) ==
  (IF "services" \in d THEN {Toggle("servicesST", "services")} ELSE {})
  \cup (IF "projects" \in d THEN {Toggle("projectST", e) : e \in projectCards(d)} ELSE {})
  \cup (IF "tech" \in d
        THEN {Toggle("techBadgesST", "tech"),
              [rule |-> "waveST", el |-> "tech", start |-> 2, end |-> MaxPos("tech"), kind |-> "wave"]}
             \cup {Toggle("techStatST", e) : e \in techStats(d)}
             \cup {Toggle("techNumberST", e) : e \in {x \in techStats(d) : ChildOf(x) \in d}}
        ELSE {})
  \cup (IF "about" \in d
        THEN {Toggle("iconsST", "about")}
             \cup {Toggle("aboutStatST", e) : e \in stats(d)}
             \cup {Toggle("aboutNumberST", e) : e \in {x \in stats(d) : ChildOf(x) \in d}}
        ELSE {})
  \cup (IF "contact" \in d
        THEN {Toggle("contactInfoST", "contact"), Toggle("contactFormST", "contact")}
             \cup {Toggle("formInputsST", TriggerEl(d, "cform"))}
        ELSE {})

\* The trigger elements whose position some rule with a target depends on.
ScrollEls(d) ==
  { e \in d : \/ \E i \in 1..Len(InitTweens(d, [x \in d |-> [textContent |-> <<"0">>]], 0, <<1>>)) :
                   InitTweens(d, [x \in d |-> [textContent |-> <<"0">>]], 0, <<1>>)[i].tel = e
              \/ (e = "tech" /\ techBadges(d) # {}) }

(* --------------------------- event handlers --------------------------- *)
Events == {"mouseenter", "mouseleave", "focus", "blur"}
Opposite(ev) ==
  CASE ev = "mouseenter" -> "mouseleave" [] ev = "mouseleave" -> "mouseenter"
    [] ev = "focus" -> "blur" [] ev = "blur" -> "focus"
IsEnter(ev) == ev \in {"mouseenter", "focus"}

\* The (element, event) pairs Initialize calls addEventListener for.
ListenerKeys(d) ==
  ((techBadges(d) \cup icons(d) \cup socialButtons(d) \cup serviceCards(d))
     \X {"mouseenter", "mouseleave"})
  \cup (formInputs(d) \X {"focus", "blur"})

\* The guards of the source around each addEventListener.
Registers(d, k) ==
  \/ k[1] \in techBadges(d) /\ "tech" \in d
  \/ k[1] \in icons(d) /\ "about" \in d
  \/ k[1] \in socialButtons(d) \cup formInputs(d) /\ "contact" \in d
  \/ k[1] \in serviceCards(d)

\* The gsap.to calls of one run of the handler of event ev on element e.
HandlerTweens(d, e, ev) ==
  CASE e \in techBadges(d) /\ ev = "mouseenter" ->
         <<To("badgeEnter", e, [scale |-> 110, y |-> -800, boxShadow |-> 100], 3, 0, 0, 0, FALSE, FALSE)>>
    [] e \in techBadges(d) /\ ev = "mouseleave" ->
         <<To("badgeLeave", e, [scale |-> 100, y |-> 0, boxShadow |-> 0], 3, 0, 0, 0, FALSE, FALSE)>>
    [] e \in icons(d) /\ ev = "mouseenter" ->
         <<To("iconEnter", e, [scale |-> 110, y |-> -500], 3, 0, 0, 0, FALSE, FALSE)>>
    [] e \in icons(d) /\ ev = "mouseleave" ->
         <<To("iconLeave", e, [scale |-> 100, y |-> 0], 3, 0, 0, 0, FALSE, FALSE)>>
    [] e \in socialButtons(d) /\ ev = "mouseenter" ->
         <<To("socialEnter", e, [scale |-> 120, rotationY |-> 18000, rotationX |-> 1000, z |-> 2000],
              6, 0, 0, 0, FALSE, FALSE)>>
    [] e \in socialButtons(d) /\ ev = "mouseleave" ->
         <<To("socialLeave", e, [scale |-> 100, rotationY |-> 0, rotationX |-> 0, z |-> 0],
              4, 0, 0, 0, FALSE, FALSE)>>
    [] e \in formInputs(d) /\ ev = "focus" ->
         <<To("inputFocus", e, [scale |-> 102, rotationX |-> -200, z |-> 500], 3, 0, 0, 0, FALSE, FALSE)>>
    [] e \in formInputs(d) /\ ev = "blur" ->
         <<To("inputBlur", e, [scale |-> 100, rotationX |-> 0, z |-> 0], 3, 0, 0, 0, FALSE, FALSE)>>
    [] e \in serviceCards(d) /\ ev = "mouseenter" ->
         <<To("cardEnter", e, [scale |-> 105, y |-> -1000, rotationY |-> 500], 3, 0, 0, 0, FALSE, FALSE)>>
         \o (IF ChildOf(e) \in d
             THEN <<To("cardIconEnter", ChildOf(e), [rotation |-> 36000, scale |-> 120],
                       6, 0, 0, 0, FALSE, FALSE)>>
             ELSE <<>>)
    [] e \in serviceCards(d) /\ ev = "mouseleave" ->
         <<To("cardLeave", e, [scale |-> 100, y |-> 0, rotationY |-> 0], 3, 0, 0, 0, FALSE, FALSE)>>
         \o (IF ChildOf(e) \in d
             THEN <<To("cardIconLeave", ChildOf(e), [rotation |-> 0, scale |-> 100],
                       4, 0, 0, 0, FALSE, FALSE)>>
             ELSE <<>>)
    [] OTHER -> <<>>

\* lines 1091-1132: the contact form is a card of inputs and a button with
\* no onSubmit, onChange or onClick: typing and "Send Message" run nothing.
FormHandlerValidates(d, e, ev) ==
  <<To("formShake", e, [x |-> 500], 3, 0, 0, 0, FALSE, FALSE)>>

FormHandler(d, e, ev) == <<>>

\* lines 328-340: the gsap.to(techBadges, ...) of the wave's onEnter
WaveTweens(d, owned) ==
  Map(InDoc(techBadges(d)), LAMBDA e :
    To("wave", e, [y |-> -500], 4, 0, OffTicks("wave", techBadges(d), e, <<>>), 1, TRUE, owned))

(* ------------------------------- state -------------------------------- *)
VARIABLES
  dom,        \* the elements of the rendered tree
  mounted,    \* the effect has run and its cleanup has not
  mounts,     \* how often the effect has run
  listeners,  \* DOM listeners: (element, event) -> number of attached handlers
  triggers,   \* the live ScrollTriggers
  tweens,     \* the tweens of the root timeline, in render order
  vis,        \* element -> property -> value
  pos,        \* trigger element -> scroll position
  hover,      \* element -> the pointer is over it / it has the focus
  lastEv,     \* element -> last event delivered to it since the last mount/unmount
  atEnter,    \* element -> the values its enter/focus handler found on its targets
              \* at rest (a set of at most one snapshot)
  stg,        \* the stagger under examination (stagger specification only)
  order       \* the immediate rules registered so far (order specification only)

vars == <<dom, mounted, mounts, listeners, triggers, tweens, vis, pos, hover, lastEv, atEnter, stg, order>>

Range(f) == {f[i] : i \in DOMAIN f}
Interactive(d) == {k[1] : k \in ListenerKeys(d)}
NoStagger == [rule |-> "none"]

(* ------------------------------- engine ------------------------------- *)
\* Length of one frame in ticks.  The ticker's frames do not divide the
\* durations: a playhead that would pass an end of its animation stops there.
Frame(d) == IF techBadges(d) # {} THEN 8 ELSE IF socialButtons(d) # {} THEN 2 ELSE 1

\* time inside the tween at playhead T of its animation
LocalT(tw, T) ==
  LET x == T - tw.off
  IN IF x < 0 THEN 0
     ELSE IF tw.rep = -1 THEN x
     ELSE IF x > tw.dur * (tw.rep + 1) THEN tw.dur * (tw.rep + 1) ELSE x

\* progress 0..dur of a tween at local time lt (yoyo runs every other cycle backwards)
Progress(tw, lt) ==
  IF tw.yoyo
  THEN LET m == lt % (2 * tw.dur) IN IF m <= tw.dur THEN m ELSE 2 * tw.dur - m
  ELSE lt

\* interpolation of one property
Interp(a, b, p, dur) == a + ((b - a) * p) \div dur

ValueAt(tw, st, q, T) ==
  LET p == Progress(tw, LocalT(tw, T))
  IN IF q = "textContent" THEN RenderText(st[q], tw.to[q], p, tw.dur)
     ELSE Interp(st[q], tw.to[q], p, tw.dur)

\* The start values a "to" tween takes on its first render.
StartValuesResting(tw, v) == [q \in DOMAIN tw.to |-> Base(tw.el, q)]

StartValues(tw, v) == [q \in DOMAIN tw.to |-> v[tw.el][q]]

\* One tick of one tween: the playhead moves, and if the tween's local time
\* changed it renders (a "to" tween first reads its start values).
StepTween(tw, v, f) ==
  LET T1  == IF tw.run = "play"
             THEN (IF tw.rep = -1 /\ tw.t + f >= tw.total THEN (tw.t + f) % tw.total
                   ELSE Min({tw.t + f, tw.total}))
             ELSE IF tw.run = "rev" THEN Max({tw.t - f, 0}) ELSE tw.t
      r1  == IF tw.run = "play" /\ tw.rep # -1 /\ T1 = tw.total THEN "done"
             ELSE IF tw.run = "rev" /\ T1 = 0 THEN "paused" ELSE tw.run
      wr  == LocalT(tw, tw.t) # LocalT(tw, T1)
      st1 == IF wr /\ ~tw.initted THEN StartValues(tw, v) ELSE tw.st
  IN [tw  |-> [tw EXCEPT !.t = T1, !.run = r1, !.st = st1, !.initted = @ \/ wr],
      vis |-> IF wr
              THEN [v EXCEPT ![tw.el] =
                      [q \in DOMAIN @ |-> IF q \in DOMAIN tw.to
                                          THEN ValueAt(tw, st1, q, T1) ELSE @[q]]]
              ELSE v]

\* The root timeline renders its children in order.
RECURSIVE Render(_, _, _, _)
Render(tws, i, acc, f) ==
  IF i > Len(tws) THEN acc
  ELSE LET r == StepTween(tws[i], acc.vis, f)
       IN Render(tws, i + 1, [tws |-> Append(acc.tws, r.tw), vis |-> r.vis], f)

\* A finished tween that no context holds leaves the root timeline.
Finished(tw) == ~tw.owned /\ tw.run = "done"
InFlight(tws) == SelectSeq(tws, LAMBDA tw : ~Finished(tw))
Live(tws, e) == Len(SelectSeq(tws, LAMBDA tw : ~tw.owned /\ tw.el = e))
Fits(tws, new) ==
  \A e \in {new[i].el : i \in DOMAIN new} :
    Live(tws, e) + Len(SelectSeq(new, LAMBDA tw : ~tw.owned /\ tw.el = e)) <= MaxLive

\* immediateRender of the tweens created initted (fromTo, set): the from
\* state is written at creation; a counter's "0" goes through the snap setter.
RECURSIVE Immediate(_, _)
Immediate(tws, v) ==
  IF tws = <<>> THEN v
  ELSE LET tw == Head(tws)
       IN Immediate(Tail(tws),
            IF tw.initted /\ tw.el \in DOMAIN v
            THEN [v EXCEPT ![tw.el] =
                    [q \in DOMAIN @ |-> IF q \in DOMAIN tw.st
                                        THEN (IF q = "textContent" THEN snap(tw.st[q]) ELSE tw.st[q])
                                        ELSE @[q]]]
            ELSE v)

(* ------------------------------ actions ------------------------------- *)
Init ==
  /\ dom \in Pages
  /\ mounted = FALSE
  /\ mounts = 0
  /\ listeners = [k \in ListenerKeys(dom) |-> 0]
  /\ triggers = {}
  /\ tweens = <<>>
  /\ vis = [e \in dom \ Sections |-> [q \in PropsOf(e) |-> Base(e, q)]]
  /\ pos = [e \in ScrollEls(dom) |-> 0]
  /\ hover = [e \in Interactive(dom) |-> FALSE]
  /\ lastEv = [e \in Interactive(dom) \cup formButtons(dom) |-> "none"]
  /\ atEnter = [e \in Interactive(dom) |-> {}]
  /\ stg = NoStagger
  /\ order = <<>>

\* toggleActions "play none none reverse": onEnter -> play()
Play(tw) ==
  IF tw.run \in {"paused", "rev"} THEN [tw EXCEPT !.run = "play"] ELSE tw

\* toggleActions "play none none reverse": onLeaveBack -> reverse()
Reverse(tw) ==
  IF tw.t <= 0 THEN [tw EXCEPT !.run = "paused", !.t = 0]
  ELSE [tw EXCEPT !.run = "rev"]

\* the toggle action a of a ScrollTrigger applied to its animation
Act(a, tw) ==
  CASE a = "play" -> Play(tw) [] a = "reverse" -> Reverse(tw) [] OTHER -> tw

\* the tweens after the triggers of element s cross threshold k; enter and
\* leave are the places of the callbacks in toggleActions
Crossed(tws, s, k, enter, leave) ==
  [i \in 1..Len(tws) |->
     LET mine == {tr \in triggers : /\ tr.kind = "toggle" /\ tr.el = s /\ tws[i].owned
                                    /\ tr.rule = tws[i].trig /\ tr.el = tws[i].tel}
     IN IF \E tr \in mine : tr.start = k THEN Act(ToggleActions[enter], tws[i])
        ELSE IF \E tr \in mine : tr.end = k THEN Act(ToggleActions[leave], tws[i])
        ELSE tws[i]]

\* The top of the body is above every start line at any scroll position.
Past(tr) == tr.el = "body" \/ (tr.el \in DOMAIN pos /\ pos[tr.el] >= tr.start)

\* lines 151-698: the effect: gsap.context(() => { ... }, heroRef)
Initialize(rnd, perm, waveOwned) ==
  LET created == InitTweens(dom, vis, rnd, perm)
      trs     == InitTriggers(dom)
      \* first update of the new ScrollTriggers at the current scroll position
      started == [i \in 1..Len(created) |->
                    IF \E tr \in trs : tr.rule = created[i].trig /\ tr.el = created[i].tel /\ Past(tr)
                    THEN Act(ToggleActions[1], created[i]) ELSE created[i]]
      wave    == IF \E tr \in trs : tr.kind = "wave" /\ Past(tr)
                 THEN WaveTweens(dom, waveOwned) ELSE <<>>
  IN /\ tweens' = tweens \o started \o wave
     /\ vis' = Immediate(created, vis)
     /\ triggers' = trs
     /\ listeners' = [k \in DOMAIN listeners |->
                        IF Registers(dom, k) THEN listeners[k] + 1 ELSE listeners[k]]

Mount ==
  /\ ~mounted
  /\ mounts < MaxMounts
  /\ \E rnd \in RandomTicks : \E perm \in Shuffles(Cardinality(techBadges(dom)) + 1) :
       \E waveOwned \in BOOLEAN :
         /\ Fits(tweens, WaveTweens(dom, waveOwned))
         /\ Initialize(rnd, perm, waveOwned)
  /\ mounted' = TRUE
  /\ mounts' = mounts + 1
  /\ lastEv' = [e \in DOMAIN lastEv |-> "none"]
  /\ atEnter' = [e \in DOMAIN atEnter |-> {}]
  /\ UNCHANGED <<dom, pos, hover, stg, order>>

\* The style groups a reverted tween restores on its target: the inline
\* transform as a whole and the opacity (the text goes back by RevertedText).
Restored(tw) ==
  (IF (DOMAIN tw.st \cup DOMAIN tw.to) \cap TransformProps # {} THEN TransformProps ELSE {})
  \cup ((DOMAIN tw.st \cup DOMAIN tw.to) \cap {"opacity"})

RevertedOnlyTriggers(tws) == SelectSeq(tws, LAMBDA tw : tw.trig = "none")

\* ctx.revert(): what is left of the root timeline
Reverted(tws) == SelectSeq(tws, LAMBDA tw : ~tw.owned)

\* The text a reverted counter tween puts back: the text its from-state
\* replaced when the tween was created.
RevertedText(tws, e, now) ==
  IF \E tw \in Range(tws) : tw.owned /\ tw.el = e /\ "textContent" \in DOMAIN tw.to
  THEN (CHOOSE tw \in Range(tws) :
          tw.owned /\ tw.el = e /\ "textContent" \in DOMAIN tw.to).to.textContent
  ELSE now

RevertStylesKeepText(tws, v) ==
  [e \in DOMAIN v |->
     [q \in DOMAIN v[e] |->
        IF \E tw \in Range(tws) : tw.owned /\ tw.initted /\ tw.el = e /\ q \in Restored(tw)
        THEN Base(e, q) ELSE v[e][q]]]

RevertStylesAll(tws, v) ==
  [e \in DOMAIN v |->
     [q \in DOMAIN v[e] |->
        IF q = "textContent" THEN RevertedText(tws, e, v[e][q])
        ELSE IF \E tw \in Range(tws) : tw.initted /\ tw.el = e /\ q \in Restored(tw)
        THEN Base(e, q) ELSE v[e][q]]]

\* ctx.revert(): what the reverted tweens leave on their targets
RevertStyles(tws, v) ==
  [e \in DOMAIN v |->
     [q \in DOMAIN v[e] |->
        IF q = "textContent" THEN RevertedText(tws, e, v[e][q])
        ELSE IF \E tw \in Range(tws) : tw.owned /\ tw.initted /\ tw.el = e /\ q \in Restored(tw)
        THEN Base(e, q) ELSE v[e][q]]]

\* line 700: the cleanup: ctx.revert()
Unmount ==
  /\ mounted
  /\ mounted' = FALSE
  /\ tweens' = Reverted(tweens)
  /\ triggers' = {}
  /\ vis' = RevertStyles(tweens, vis)
  /\ lastEv' = [e \in DOMAIN lastEv |-> "none"]
  /\ atEnter' = [e \in DOMAIN atEnter |-> {}]
  /\ UNCHANGED <<dom, mounts, listeners, pos, hover, stg, order>>

\* one frame of the ticker
Tick ==
  /\ tweens # <<>>
  /\ LET r == Render(tweens, 1, [tws |-> <<>>, vis |-> vis], Frame(dom))
     IN /\ tweens' = InFlight(r.tws)
        /\ vis' = r.vis
  /\ UNCHANGED <<dom, mounted, mounts, listeners, triggers, pos, hover, lastEv, atEnter, stg, order>>

RECURSIVE Times(_, _)
Times(n, sq) == IF n = 0 THEN <<>> ELSE sq \o Times(n - 1, sq)

\* The browser delivers ev to e: every attached handler runs.
\* What a handler run is about to animate: its target elements, whether
\* nothing is moving them (no handler tween in flight, every rule of
\* Initialize on them still waiting at its start), and the values it finds.
Targets(new) == {new[i].el : i \in DOMAIN new}
AtRest(tws, X) ==
  \A i \in DOMAIN tws :
    tws[i].el \in X =>
      /\ tws[i].owned
      /\ tws[i].dur = 0 \/ (tws[i].run = "paused" /\ tws[i].t <= 0)
Found(new, v) ==
  [x \in Targets(new) |->
     [q \in UNION {DOMAIN new[i].to : i \in {j \in DOMAIN new : new[j].el = x}} |-> v[x][q]]]

Dispatch(e, ev) ==
  /\ <<e, ev>> \in DOMAIN listeners
  /\ hover[e] = ~IsEnter(ev)
  /\ LET new == Times(listeners[<<e, ev>>], HandlerTweens(dom, e, ev))
     IN /\ Fits(tweens, new)
        /\ tweens' = tweens \o new
        /\ lastEv' = IF new = <<>> THEN lastEv ELSE [lastEv EXCEPT ![e] = ev]
        /\ atEnter' = IF new = <<>> THEN atEnter
                      ELSE IF ~AtRest(tweens, Targets(new)) THEN [atEnter EXCEPT ![e] = {}]
                      ELSE IF IsEnter(ev) THEN [atEnter EXCEPT ![e] = {Found(new, vis)}]
                      ELSE atEnter
  /\ hover' = [hover EXCEPT ![e] = IsEnter(ev)]
  /\ UNCHANGED <<dom, mounted, mounts, listeners, triggers, vis, pos, stg, order>>

Pointer == \E e \in Interactive(dom) : \E ev \in Events : Dispatch(e, ev)

\* The user types into a focused form input or activates "Send Message".
FormEvent ==
  \E e \in formInputs(dom) \cup formButtons(dom) :
    LET ev == IF e \in formButtons(dom) THEN "click" ELSE "input"
    IN /\ e \in formInputs(dom) => hover[e]
       /\ Fits(tweens, FormHandler(dom, e, ev))
       /\ tweens' = tweens \o FormHandler(dom, e, ev)
       /\ lastEv' = [lastEv EXCEPT ![e] = ev]
       /\ UNCHANGED <<dom, mounted, mounts, listeners, triggers, vis, pos, hover, atEnter, stg, order>>

\* The page is scrolled forward past the next threshold of trigger element s.
ScrollDown ==
  \E s \in DOMAIN pos :
    /\ pos[s] < MaxPos(s)
    /\ pos' = [pos EXCEPT ![s] = @ + 1]
    /\ LET entered == {tr \in triggers : tr.el = s /\ tr.start = pos[s] + 1}
           wave    == IF \E tr \in entered : tr.kind = "wave"
                      THEN WaveTweens(dom, FALSE) ELSE <<>>
       IN /\ Fits(tweens, wave)
          /\ tweens' = Crossed(tweens, s, pos[s] + 1, 1, 2) \o wave
    /\ UNCHANGED <<dom, mounted, mounts, listeners, triggers, vis, hover, lastEv, atEnter, stg, order>>

\* The page is scrolled back above the last threshold passed of trigger element s.
ScrollUp ==
  \E s \in DOMAIN pos :
    /\ pos[s] > 0
    /\ pos' = [pos EXCEPT ![s] = @ - 1]
    /\ tweens' = Crossed(tweens, s, pos[s], 4, 3)
    /\ UNCHANGED <<dom, mounted, mounts, listeners, triggers, vis, hover, lastEv, atEnter, stg, order>>

\* line 700 once more: ctx.revert() on a context already reverted
UnmountAgain ==
  /\ ~mounted
  /\ mounts > 0
  /\ tweens' = Reverted(tweens)
  /\ triggers' = {}
  /\ vis' = RevertStyles(tweens, vis)
  /\ UNCHANGED <<dom, mounted, mounts, listeners, pos, hover, lastEv, atEnter, stg, order>>

Next ==
  Mount \/ Unmount \/ UnmountAgain \/ Tick \/ Pointer \/ FormEvent \/ ScrollDown \/ ScrollUp

Spec == Init /\ [][Next]_vars

(* ------------------------- stagger specification ---------------------- *)
\* The stagger of one rule laid over a list of n targets, item by item, as
\* gsap calls the distribute function once for each target.
InitStagger ==
  /\ dom = {}
  /\ mounted = FALSE
  /\ mounts = 0
  /\ listeners = [k \in ListenerKeys(dom) |-> 0]
  /\ triggers = {}
  /\ tweens = <<>>
  /\ vis = [e \in dom \ Sections |-> [q \in PropsOf(e) |-> Base(e, q)]]
  /\ pos = [e \in ScrollEls(dom) |-> 0]
  /\ hover = [e \in Interactive(dom) |-> FALSE]
  /\ lastEv = [e \in Interactive(dom) \cup formButtons(dom) |-> "none"]
  /\ atEnter = [e \in Interactive(dom) |-> {}]
  /\ order = <<>>
  /\ \E c \in StaggerRules : \E n \in 1..MaxN :
       \E perm \in (IF c.from = "random" THEN Shuffles(n) ELSE {[i \in 1..n |-> i]}) :
         stg = [rule |-> c.rule, n |-> n, perm |-> perm, offs |-> <<>>]

PlaceItem ==
  /\ stg.rule # "none"
  /\ Len(stg.offs) < stg.n
  /\ stg' = [stg EXCEPT !.offs =
               Append(@, Distribute(StaggerOf(stg.rule), Len(@), stg.n, stg.perm))]
  /\ UNCHANGED <<dom, mounted, mounts, listeners, triggers, tweens, vis, pos, hover, lastEv, atEnter, order>>

NextStagger == PlaceItem

SpecStagger == InitStagger /\ [][NextStagger]_vars

(* ----------------- start times of the immediate rules ----------------- *)
\* The rules without a scrollTrigger start when the effect runs.  The effect
\* registers them in source order: the hero timeline's title, subtitle and
\* buttons, then one breathing tween per badge, then one rotation tween per
\* social button.  A start time is in ticks after the effect ran.
MaxImmediate == 3

\* position "-=x" of a timeline child: x before the end of the timeline,
\* and never before the timeline's start
BeforeEnd(tlEnd, x) == Max({0, tlEnd - x})

Registered(rule, n, first, step) ==
  [i \in 1..n |-> [rule |-> rule, index |-> i - 1, start |-> first + (i - 1) * step]]

InitOrder ==
  /\ dom = {}
  /\ mounted = FALSE
  /\ mounts = 0
  /\ listeners = [k \in ListenerKeys(dom) |-> 0]
  /\ triggers = {}
  /\ tweens = <<>>
  /\ vis = [e \in dom \ Sections |-> [q \in PropsOf(e) |-> Base(e, q)]]
  /\ pos = [e \in ScrollEls(dom) |-> 0]
  /\ hover = [e \in Interactive(dom) |-> FALSE]
  /\ lastEv = [e \in Interactive(dom) \cup formButtons(dom) |-> "none"]
  /\ atEnter = [e \in Interactive(dom) |-> {}]
  /\ stg = NoStagger
  /\ \E title, subtitle \in BOOLEAN : \E buttons, badges, socials \in 0..MaxImmediate :
       order = [pc |-> "title", title |-> title, subtitle |-> subtitle, buttons |-> buttons,
                badges |-> badges, socials |-> socials, tlEnd |-> 0, regs |-> <<>>]

\* lines 157-175: tl.fromTo(titleRef.current, ..., { duration: 1.2 })
RegisterTitle ==
  /\ order.pc = "title"
  /\ order' = IF order.title
              THEN [order EXCEPT !.pc = "subtitle", !.tlEnd = 12,
                                 !.regs = @ \o Registered("heroTitle", 1, 0, 0)]
              ELSE [order EXCEPT !.pc = "subtitle"]
  /\ UNCHANGED <<dom, mounted, mounts, listeners, triggers, tweens, vis, pos, hover, lastEv, atEnter, stg>>

\* lines 178-185: tl.fromTo(subtitleRef.current, ..., { duration: 0.8 }, "-=0.6")
RegisterSubtitle ==
  /\ order.pc = "subtitle"
  /\ order' = IF order.subtitle
              THEN LET at == BeforeEnd(order.tlEnd, 6)
                   IN [order EXCEPT !.pc = "buttons", !.tlEnd = Max({@, at + 8}),
                                    !.regs = @ \o Registered("heroSubtitle", 1, at, 0)]
              ELSE [order EXCEPT !.pc = "buttons"]
  /\ UNCHANGED <<dom, mounted, mounts, listeners, triggers, tweens, vis, pos, hover, lastEv, atEnter, stg>>

\* lines 188-201: tl.fromTo(buttonsRef.current.children, ...,
\* { duration: 0.6, stagger: 0.2 }, "-=0.4")
RegisterButtons ==
  /\ order.pc = "buttons"
  /\ order' = LET at == BeforeEnd(order.tlEnd, 4)
              IN [order EXCEPT !.pc = "breathing",
                               !.regs = @ \o Registered("heroButtons", order.buttons, at, 2)]
  /\ UNCHANGED <<dom, mounted, mounts, listeners, triggers, tweens, vis, pos, hover, lastEv, atEnter, stg>>

\* lines 292-301: techBadges.forEach: gsap.to(badge, { ..., delay: index * 0.1 })
RegisterBreathing ==
  /\ order.pc = "breathing"
  /\ order' = [order EXCEPT !.pc = "rotation",
                            !.regs = @ \o Registered("breathing", order.badges, 0, 1)]
  /\ UNCHANGED <<dom, mounted, mounts, listeners, triggers, tweens, vis, pos, hover, lastEv, atEnter, stg>>

\* lines 597-612: socialButtons.forEach: gsap.to(btn, { ..., delay: index * 0.2 })
RegisterRotation ==
  /\ order.pc = "rotation"
  /\ order' = [order EXCEPT !.pc = "done",
                            !.regs = @ \o Registered("rotation", order.socials, 0, 2)]
  /\ UNCHANGED <<dom, mounted, mounts, listeners, triggers, tweens, vis, pos, hover, lastEv, atEnter, stg>>

NextOrder ==
  RegisterTitle \/ RegisterSubtitle \/ RegisterButtons \/ RegisterBreathing \/ RegisterRotation

SpecOrder == InitOrder /\ [][NextOrder]_vars

(* ------------------------------ properties ---------------------------- *)
\* the rules the context function registers on this page
InitRuleNames ==
  LET created == InitTweens(dom, vis, 0, [i \in 1..(Cardinality(techBadges(dom)) + 1) |-> i])
  IN {created[i].rule : i \in 1..Len(created)}

CreatedRules ==
  LET created == InitTweens(dom, vis, 0, [i \in 1..(Cardinality(techBadges(dom)) + 1) |-> i])
  IN {<<created[i].rule, created[i].el>> : i \in 1..Len(created)}

RegisteredRules(tws) == {<<tw.rule, tw.el>> : tw \in {x \in Range(tws) : x.rule \in InitRuleNames}}

\* C1: after each unmount the number of live ScrollTriggers and of
\* pointer/focus listeners attached by initialize is 0.
NoObserversAfterUnmount ==
  ~mounted => /\ triggers = {}
              /\ \A k \in DOMAIN listeners : listeners[k] = 0

\* C2: after unmount no visual property of any element changes any more and
\* no event starts a new transition.
FrozenAfterUnmount ==
  [][(~mounted /\ ~mounted') => (vis' = vis /\ Len(tweens') <= Len(tweens))]_vars

NoDoubleRegistration ==
  /\ \A k \in DOMAIN listeners : listeners[k] <= 1
  /\ \A e \in DOMAIN vis : \A r \in InitRuleNames :
       Len(SelectSeq(tweens, LAMBDA tw : tw.el = e /\ tw.rule = r)) <= 1
  /\ \A tr \in InitTriggers(dom) :
       Cardinality({x \in triggers : x.rule = tr.rule /\ x.el = tr.el}) <= 1

\* the properties of element e that no registered rule writes
PointerOnly(e) == {q \in PropsOf(e) : \A tw \in Range(tweens) : tw.owned /\ tw.el = e => q \notin DOMAIN tw.to}

\* C5: once the transitions of the pointer/focus rules have run out after a
\* leave or blur, the element rests at the end state of that leave or blur.
RestsAtLastTrigger ==
  \A e \in DOMAIN lastEv :
    (/\ lastEv[e] \in {"mouseleave", "blur"}
     /\ \A tw \in Range(tweens) : tw.owned)
    => \A i \in 1..Len(HandlerTweens(dom, e, lastEv[e])) :
         LET h == HandlerTweens(dom, e, lastEv[e])[i]
         IN \A q \in DOMAIN h.to \cap PointerOnly(h.el) : vis[h.el][q] = h.to[q]

\* The tweens of a viewport trigger's rule, and the phase of the rule.
RuleOf(tw, tr) ==
  IF tr.kind = "toggle" THEN tw.trig = tr.rule /\ tw.tel = tr.el ELSE tw.rule = "wave"

HasTargets(tr, tws) ==
  IF tr.kind = "toggle" THEN \E tw \in Range(tws) : RuleOf(tw, tr) ELSE techBadges(dom) # {}

Phase(tr, tws, p) ==
  LET runs == {tw.run : tw \in {x \in Range(tws) : RuleOf(x, tr)}}
  IN IF "play" \in runs THEN "entering"
     ELSE IF "rev" \in runs THEN "leaving"
     ELSE IF tr.kind = "toggle" THEN (IF "done" \in runs THEN "settled" ELSE "idle")
     ELSE IF p[tr.el] >= tr.start THEN "settled" ELSE "idle"

Forward(tr)  == tr.el \in DOMAIN pos /\ pos[tr.el] = tr.start - 1 /\ pos'[tr.el] = tr.start
Backward(tr) == tr.el \in DOMAIN pos /\ pos[tr.el] = tr.start /\ pos'[tr.el] = tr.start - 1

\* C6: every viewport-triggered rule runs idle -> entering -> settled when its
\* threshold is crossed forward and settled -> leaving -> idle when it is
\* crossed back, and a forward crossing during leaving resumes the transition
\* from the playhead it was at.
ViewportStateMachine ==
  [][\A tr \in triggers :
       (HasTargets(tr, tweens) /\ triggers' = triggers) =>
         LET before == Phase(tr, tweens, pos)
             after  == Phase(tr, tweens', pos')
         IN /\ Forward(tr)  => /\ after \in {"entering", "settled"}
                               /\ before \in {"idle", "leaving"}
                               /\ \A i \in 1..Len(tweens) :
                                    (RuleOf(tweens[i], tr) /\ tweens[i].run = "rev")
                                      => tweens'[i].t = tweens[i].t
            /\ Backward(tr) => /\ after \in {"leaving", "idle"}
                               /\ before \in {"entering", "settled"}
            /\ (pos' = pos /\ before # after) =>
                 <<before, after>> \in {<<"entering", "settled">>, <<"leaving", "idle">>}]_vars

\* C7: every viewport trigger is reversible: when its threshold is crossed
\* back, its rule fires in reverse.
FiresInReverse ==
  [][\A tr \in triggers :
       (HasTargets(tr, tweens) /\ Backward(tr)) =>
         \E i \in 1..Len(tweens') :
           RuleOf(tweens'[i], tr) /\ tweens'[i].run \in {"rev", "paused"}]_vars

EnterRules == {"badgeEnter", "iconEnter", "socialEnter", "inputFocus", "cardEnter", "cardIconEnter"}
LeaveRules == {"badgeLeave", "iconLeave", "socialLeave", "inputBlur", "cardLeave", "cardIconLeave"}

\* C8: a leave (blur) transition created while the enter (focus) transition
\* of the same element is in flight starts from the values the enter
\* transition has reached, property by property.
LeaveStartsFromCurrent ==
  [][\A e \in DOMAIN vis :
       LET U  == SelectSeq(tweens,  LAMBDA tw : tw.el = e /\ ~tw.owned)
           U1 == SelectSeq(tweens', LAMBDA tw : tw.el = e /\ ~tw.owned)
       IN (/\ Len(U) = 2 /\ Len(U1) = 2
           /\ U[1].rule \in EnterRules /\ U[1].initted /\ U[1].run = "play"
           /\ U[2].rule \in LeaveRules /\ ~U[2].initted /\ U1[2].initted)
          => \A q \in DOMAIN U[2].to \cap DOMAIN U[1].to :
               U1[2].st[q] = Interp(U[1].st[q], U[1].to[q], U[1].t + Frame(dom), U[1].dur)]_vars

\* C8 witness: a social button's leave transition has started from a scale
\* strictly between the resting scale and the scale the enter transition ends on.
LeaveMidFlightWitness ==
  \E i \in 1..Len(tweens) :
    /\ tweens[i].rule = "socialLeave" /\ tweens[i].initted
    /\ tweens[i].st.scale > Base(tweens[i].el, "scale")
    /\ tweens[i].st.scale < 120
    /\ \E j \in 1..Len(tweens) : tweens[j].rule = "socialEnter" /\ tweens[j].run = "play"

\* C9: for every staggered rule and every number of targets, the time from
\* the first item's start to the last item's start is within the configured
\* stagger value of the rule.
SpreadWithinBudget ==
  (stg.rule # "none" /\ Len(stg.offs) = stg.n)
    => Max(Range(stg.offs)) - Min(Range(stg.offs)) <= StaggerOf(stg.rule).ms

\* C10: a counter shows only whole-number strings while it counts, and when
\* its forward transition has settled it shows exactly the text captured when
\* the rule was registered.
CounterSettlesOnLiteral ==
  \A i \in 1..Len(tweens) :
    "textContent" \in DOMAIN tweens[i].to =>
      LET shown == vis[tweens[i].el].textContent
      IN /\ PrefixLen(shown, Digits) >= 1
         /\ \A k \in 1..Len(shown) : shown[k] # "."
         /\ tweens[i].run = "done" => shown = tweens[i].to.textContent

\* C11: the leave/blur transition is the inverse of the enter/focus one.
\* When an enter handler found its targets at rest, ran to completion, and the
\* leave handler then ran to completion with nothing else moving the targets,
\* every property the enter handler wrote has the value it had before the enter.
InverseRestores ==
  \A e \in DOMAIN atEnter : \A was \in atEnter[e] :
    (lastEv[e] \in {"mouseleave", "blur"} /\ AtRest(tweens, DOMAIN was))
      => \A x \in DOMAIN was : \A q \in DOMAIN was[x] : vis[x][q] = was[x][q]

\* The ambient rules (repeat: -1, yoyo: true) and their tweens on the timeline.
AmbientRules == {"breathing", "rotation"}
Ambient(tws) == SelectSeq(tws, LAMBDA tw : tw.rule \in AmbientRules)

\* C12: every tech badge and social button has one ambient yoyo from
\* initialize on; while the component stays mounted it keeps playing: a frame
\* advances its playhead round its cycle and no other step (pointer event,
\* scroll, form event) stops, pauses or restarts it; teardown removes it.
AmbientKeepsOscillating ==
  [][LET A  == Ambient(tweens)
         A1 == Ambient(tweens')
     IN /\ mounted' =>
             \A e \in techBadges(dom) \cup socialButtons(dom) :
               Len(SelectSeq(A1, LAMBDA tw : tw.el = e)) = 1
        /\ ~mounted' => A1 = <<>>
        /\ (mounted /\ mounted') =>
             /\ Len(A1) = Len(A)
             /\ \A i \in 1..Len(A) :
                  /\ A1[i].run = "play" /\ A[i].run = "play"
                  /\ IF Tick THEN /\ A1[i].t = (A[i].t + Frame(dom)) % A[i].total
                                  /\ [A1[i] EXCEPT !.t = 0, !.st = <<>>, !.initted = TRUE]
                                       = [A[i] EXCEPT !.t = 0, !.st = <<>>, !.initted = TRUE]
                     ELSE A1[i] = A[i]]_vars

\* C12 witness: a badge's breathing is on the way back of its cycle while a
\* hover transition is in flight on the same badge and the page is scrolled
\* past the section's start.
AmbientWitness ==
  /\ mounted
  /\ \E tw \in Range(tweens) :
       /\ tw.rule = "breathing" /\ tw.run = "play" /\ tw.t > tw.dur
       /\ \E h \in Range(tweens) : ~h.owned /\ h.el = tw.el /\ h.run = "play"
       /\ pos["tech"] > 0

\* The elements the selectors of the effect may fail to find.
Missing == {"card0", "icon0", "badge0", "cform", "anum0"}

\* What registering a rule fixes: its name, target, timing and trigger.
Registration(tw) ==
  [rule |-> tw.rule, el |-> tw.el, off |-> tw.off, rep |-> tw.rep, yoyo |-> tw.yoyo,
   trig |-> tw.trig, tel |-> tw.tel, to |-> tw.to]

\* C13: when a rule's target is missing, every other rule is registered
\* exactly as if the missing target had been present: each rule registered
\* on the page is one that would have been registered, with the same target,
\* timing and trigger, had the element been there.
RegisteredAsIfPresent ==
  mounted =>
    \A m \in Missing \ dom :
      \A tw \in Range(tweens) :
        (tw.owned /\ tw.rule # "wave") =>
          /\ \E rnd \in RandomTicks : \E perm \in Shuffles(Cardinality(techBadges(dom \cup {m})) + 1) :
               \E u \in Range(InitTweens(dom \cup {m}, vis, rnd, perm)) :
                 Registration(u) = [Registration(tw) EXCEPT !.to = Registration(u).to]
          /\ tw.trig # "none" =>
               \E tr \in triggers \cap InitTriggers(dom \cup {m}) :
                 tr.rule = tw.trig /\ tr.el = tw.tel

\* The entrance tween of service card e on a timeline.
CardRule(tws, e) == SelectSeq(tws, LAMBDA tw : tw.rule = "serviceCards" /\ tw.el = e)

\* C16: the opacity rule of a service card runs idle -> entering -> settled
\* and ends on opacity 1 whatever pointer events arrive: the card's opacity
\* is always the one the rule's playhead gives, a settled rule shows opacity
\* 1, and a pointer event changes neither the rule nor the opacity.
CardOpacityIgnoresPointer ==
  [][\A e \in serviceCards(dom) :
       (mounted /\ mounted') =>
         LET C  == CardRule(tweens, e)
             C1 == CardRule(tweens', e)
         IN /\ Len(C) = 1 /\ Len(C1) = 1
            /\ vis'[e].opacity = ValueAt(C1[1], C1[1].st, "opacity", C1[1].t)
            /\ C1[1].run = "done" => vis'[e].opacity = 100
            /\ hover' # hover => (C1[1] = C[1] /\ vis'[e].opacity = vis[e].opacity)
            /\ C[1].run # C1[1].run =>
                 \/ pos' # pos /\ C1[1].run \in {"play", "rev", "paused"}
                 \/ pos' = pos /\ <<C[1].run, C1[1].run>> \in {<<"play", "done">>, <<"rev", "paused">>}]_vars

\* C16 witness: the rule has settled on opacity 1 on a card that is hovered
\* and lifted by its completed mouseenter transition.
CardSettledHoveredWitness ==
  \E e \in serviceCards(dom) :
    /\ mounted /\ hover[e] /\ vis[e].scale = 105
    /\ \E tw \in Range(tweens) : tw.rule = "serviceCards" /\ tw.el = e /\ tw.run = "done"
    /\ vis[e].opacity = 100

\* C17: the contact form has no submission or validation: typing into a
\* field or activating "Send Message" starts no transition and changes
\* nothing of the page's state (only the event itself is noted).
FormEventsChangeNothing ==
  [][FormEvent =>
       UNCHANGED <<dom, mounted, mounts, listeners, triggers, tweens, vis, pos, hover, atEnter>>]_vars

\* C17 witness: "Send Message" has been activated, or a focused field typed
\* into while its focus transition was still running.
FormUsedWitness ==
  /\ mounted
  /\ \/ \E e \in formButtons(dom) : lastEv[e] = "click"
     \/ \E e \in formInputs(dom) :
          /\ lastEv[e] = "input"
          /\ \E tw \in Range(tweens) : tw.rule = "inputFocus" /\ tw.el = e /\ tw.initted

\* A transition that is writing: playing or reversing, past its first render.
Writing(tw) == tw.run \in {"play", "rev"} /\ tw.initted /\ tw.dur > 0

\* C18: no two transitions active at the same time write the same property
\* of the same element.
NoTwoWriters ==
  \A i, j \in 1..Len(tweens) :
    (i < j /\ Writing(tweens[i]) /\ Writing(tweens[j]) /\ tweens[i].el = tweens[j].el)
      => DOMAIN tweens[i].to \cap DOMAIN tweens[j].to = {}

\* The tweens of trigger tr on a timeline, in timeline order.
RuleTweens(tws, tr) == SelectSeq(tws, LAMBDA tw : RuleOf(tw, tr))
CrossesEnd(tr) ==
  /\ tr.el \in DOMAIN pos
  /\ {pos[tr.el], pos'[tr.el]} = {tr.end - 1, tr.end}

\* C19: a settled toggle rule leaves settled only when the page is scrolled
\* back above its start, and then in reverse; scrolling past the end of its
\* range, or back into the range from below, starts no transition and leaves
\* the rule and what its targets show unchanged.
SettledLeavesOnlyBackward ==
  [][\A tr \in triggers :
       (tr.kind = "toggle" /\ triggers' = triggers) =>
         LET R  == RuleTweens(tweens, tr)
             R1 == RuleTweens(tweens', tr)
         IN /\ Len(R1) = Len(R)
            /\ \A i \in 1..Len(R) :
                 R[i].run = "done" =>
                   /\ R1[i].run # "done" => (Backward(tr) /\ R1[i].run = "rev")
                   /\ CrossesEnd(tr) => (R1[i] = R[i] /\ vis'[R[i].el] = vis[R[i].el])]_vars

\* C19 witness: a rule is settled, its targets show its end values, and the
\* page is scrolled past the end of its range.
SettledPastEndWitness ==
  \E tr \in triggers :
    /\ tr.kind = "toggle" /\ tr.el \in DOMAIN pos /\ pos[tr.el] = tr.end
    /\ \E tw \in Range(tweens) :
         /\ RuleOf(tw, tr) /\ tw.run = "done"
         /\ \A q \in DOMAIN tw.to \ {"textContent"} : vis[tw.el][q] = tw.to[q]

\* C15: a second teardown is safe and leaves everything as the first left
\* it: after ctx.revert() the context holds nothing, so reverting again
\* removes no tween or trigger and writes no style or text.
SecondTeardownIdle ==
  [][UnmountAgain => UNCHANGED vars]_vars

\* C15 witness: the component is torn down while a transition started by a
\* handler is still on the timeline and its target shows a value the
\* transition wrote.
TornDownInFlightWitness ==
  /\ ~mounted /\ mounts > 0
  /\ \E tw \in Range(tweens) :
       /\ tw.initted
       /\ \E q \in DOMAIN tw.to : q \in Restored(tw) /\ vis[tw.el][q] # Base(tw.el, q)

\* C20: across mount/unmount cycles the final value a counter rule captures
\* at initialize is the literal of the markup, never "0" or an intermediate
\* value a previous mount left in the text.
CapturesMarkupLiteral ==
  \A tw \in Range(tweens) :
    (tw.owned /\ "textContent" \in DOMAIN tw.to) => tw.to.textContent = Markup(tw.el)

\* C20 witness: the second mount has registered a counter rule after the
\* first mount's counter had been counting.
RemountedCounterWitness ==
  /\ mounted /\ mounts = 2
  /\ \E tw \in Range(tweens) :
       /\ tw.owned /\ "textContent" \in DOMAIN tw.to
       /\ tw.run = "play" /\ tw.t > 0
       /\ vis[tw.el].textContent # Markup(tw.el)

\* C14: the rules that start at once start in registration order: a rule
\* registered earlier starts no later than a rule registered after it.
StartsInRegistrationOrder ==
  \A i, j \in 1..Len(order.regs) :
    i < j => order.regs[i].start <= order.regs[j].start

\* The entrance tweens of project card e on a timeline.
ProjectRule(tws, e) == SelectSeq(tws, LAMBDA tw : tw.rule = "projectCard" /\ tw.el = e)
Shown(v, e) == [q \in {"opacity", "x", "rotation"} |-> v[e][q]]

\* C21: each project card has its own viewport rule triggered by the card
\* itself.  Idle, the card at an even index shows x = -100, rotation = -5 and
\* the card at an odd index x = +100, rotation = +5 (opacity 0); settled,
\* every card shows opacity 1, x = 0, rotation = 0; and a card crossing its
\* threshold changes neither the rule nor the look of any other card.
ProjectCardsIndependent ==
  [][mounted' =>
       \A e \in projectCards(dom) :
         LET P1 == ProjectRule(tweens', e)
         IN /\ Len(P1) = 1
            /\ P1[1].trig = "projectST" /\ P1[1].tel = e
            /\ \E tr \in triggers' : tr.kind = "toggle" /\ tr.rule = "projectST" /\ tr.el = e
            /\ (P1[1].run = "paused" /\ P1[1].t <= 0) =>
                 Shown(vis', e) = [opacity |-> 0,
                                   x |-> IF Idx(e) % 2 = 0 THEN -10000 ELSE 10000,
                                   rotation |-> IF Idx(e) % 2 = 0 THEN -500 ELSE 500]
            /\ P1[1].run = "done" => Shown(vis', e) = [opacity |-> 100, x |-> 0, rotation |-> 0]
            /\ \A f \in projectCards(dom) \ {e} :
                 (mounted /\ pos'[f] # pos[f]) =>
                   (P1 = ProjectRule(tweens, e) /\ vis'[e] = vis[e])]_vars

\* C21 witness: the first card has crossed its threshold and settled while
\* the second, not yet reached, still waits in its idle state on the right.
OneCardSettledWitness ==
  /\ mounted
  /\ {"pcard0", "pcard1"} \subseteq dom
  /\ pos["pcard0"] >= 1 /\ pos["pcard1"] = 0
  /\ \E tw \in Range(tweens) : tw.rule = "projectCard" /\ tw.el = "pcard0" /\ tw.run = "done"
  /\ \E tw \in Range(tweens) : tw.rule = "projectCard" /\ tw.el = "pcard1" /\ tw.run = "paused"
  /\ Shown(vis, "pcard0") = [opacity |-> 100, x |-> 0, rotation |-> 0]
  /\ Shown(vis, "pcard1") = [opacity |-> 0, x |-> 10000, rotation |-> 500]

=============================================================================
